---------------------------- MODULE Spec2Model ----------------------------
(***************************************************************************)
(* PeruGo backend: the authentication routes (src/server.js and            *)
(* src/src/routes/auth.js) over the User table, and the destination seed   *)
(* script (src/prisma/seed.js) over the Destino table.                     *)
(*                                                                         *)
(* Every route handler is an async function.  It runs synchronously up to  *)
(* its first await, and each await (prisma.user.findUnique, bcrypt.compare,*)
(* bcrypt.hash, prisma.user.create) is a point where other requests run.   *)
(* One action of the model is the piece of a handler between two awaits.   *)
(* A prisma call takes two steps: the store runs the query against the     *)
(* table, and later the handler resumes with the result; other requests    *)
(* run in between.                                                         *)
(*                                                                         *)
(* A request is its parsed JSON body (email, password); the optional       *)
(* username is left out, so a created row has username NULL.  An awaited   *)
(* prisma call may reject (store unreachable, unique index), and           *)
(* bcrypt.compare rejects on a NULL hash; bcrypt.hash of a string and      *)
(* jwt.sign with its never-empty secret return.                            *)
(***************************************************************************)
EXTENDS Naturals, Sequences, FiniteSets, Bags, TLC

VARIABLES
  app,        \* which entry point is deployed: "server" (src/server.js) or "routes" (src/src/routes/auth.js)
  prisma,     \* server.js:34-45  TRUE iff `new PrismaClient()` succeeded at start-up
  users,      \* the rows of table User
  nextId,     \* number of ids the store has generated so far
  req,        \* the bag of requests being served: each a handler suspended at an await
  last,       \* history: the request answered most recently, with its response
  registered, \* history: the <<email, password>> pairs for which a register answered 201
  destinos,   \* seed.js:2   the imported static dataset
  catalog,    \* the rows of table Destino
  prior,      \* history: the rows of Destino before the first seed run
  seedPc,     \* position of the seed script
  seedIdx,    \* seed.js:19  loop index into destinos
  seedExits   \* history: the exit code of each seed run so far

vars == <<app, prisma, users, nextId, req, last, registered,
          destinos, catalog, prior, seedPc, seedIdx, seedExits>>
seedVars == <<destinos, catalog, prior, seedPc, seedIdx, seedExits>>

---------------------------------------------------------------------------
(* Bounds *)

MaxReqs == 2        \* requests in flight at once
MaxSeedLen == 2     \* entries of the seed dataset
MaxSeedRuns == 2    \* seed runs in succession

---------------------------------------------------------------------------
(* Values of the JSON request bodies and of the store *)

Undefined == "<undefined>"   \* a key missing from req.body
Null == "<null>"             \* SQL NULL / JS null

\* !x for the request fields: undefined and the empty string are falsy
Falsy(x) == x = Undefined \/ x = ""

Emails == {Undefined, "a@b.com", "test@test.com"}
Passwords == {Undefined, "12345", "123456"}

MinPasswordLength == 6
BcryptCost == 12

\* bcrypt.hash(password, 12): a salted hash string, never the password itself
BcryptHash(password, cost) == "$2a$" \o ToString(cost) \o "$" \o password

\* bcrypt.compare(password, hash) for two strings
\* (the cost factor is read back from the hash)
BcryptCompare(password, hash) ==
  \E c \in 4..31 : hash = BcryptHash(password, c)

\* bcryptjs rejects with "Illegal arguments" unless both arguments are strings
BcryptCompareThrows(password, hash) == hash = Null

NoUser == [id |-> "", email |-> "", username |-> "", password |-> ""]

\* prisma.user.findUnique({ where: { email } }): the row or null
FindUnique(rows, email) ==
  IF \E u \in rows : u.email = email
    THEN CHOOSE u \in rows : u.email = email
    ELSE NoUser

\* mutant: the table has no unique index on email
NoUniqueIndex(rows, email) == FALSE

\* UNIQUE INDEX User_email_key: an insert with a taken email is rejected (P2002)
UniqueViolation(rows, email) == \E u \in rows : u.email = email

\* the id the store gives the n-th row it creates
UserId(n) == "u" \o ToString(n)

\* a row created outside the register route, without a credential
LegacyUser == [id |-> "legacy", email |-> "a@b.com", username |-> Null, password |-> Null]

InitialStores == { {}, {LegacyUser} }

---------------------------------------------------------------------------
(* Tokens and responses *)

NoToken == [userId |-> "", email |-> "", expiresIn |-> ""]

\* jwt.sign({ userId, email }, secret, { expiresIn: '24h' })
JwtSign(userId, email) == [userId |-> userId, email |-> email, expiresIn |-> "24h"]

MsgRequired == "Email y contraseña son requeridos"
MsgShort == "La contraseña debe tener al menos 6 caracteres"
MsgNotFound == "Usuario no encontrado"
MsgWrongPassword == "Contraseña incorrecta"
MsgConflict == "Ya existe un usuario con este email"
MsgEmailRequired == "Email es requerido"
MsgInternal == "Error interno del servidor"
MsgSimInvalid == "Credenciales inválidas. Usa: test@test.com / 123456"

\* the Content-Type of a response
Json == "application/json"
Html == "text/html"

\* a response body: the object the handler builds, under `layers` applications
\* of JSON.stringify (0: the object itself, 1: its JSON text, 2: the JSON text
\* of that text, which a client parses to a string); `type` is the error name
\* the final error handler of server.js adds
NoResp == [status |-> 0, error |-> "", token |-> NoToken, userId |-> "",
           email |-> "", username |-> "", simulated |-> FALSE, layers |-> 0,
           contentType |-> "", type |-> ""]

\* JSON.stringify(body)
Stringify(body) == [body EXCEPT !.layers = @ + 1]

\* server.js:19-31, the replaced res.send: a string that starts with neither
\* { nor [ would be wrapped in {message}; the text of an object starts with {,
\* so data is kept, serialised once more and handed to the original send
ForcedSend(data) == [Stringify(data) EXCEPT !.contentType = Json]

\* Express res.json(obj): this.send(JSON.stringify(obj)); in server.js
\* this.send is the replaced send
ResJson(obj) ==
  LET body == [Stringify(obj) EXCEPT !.contentType = Json] IN
  IF app = "server" THEN ForcedSend(body) ELSE body

\* res.json(obj) of a response whose send was not replaced
ResJsonOnce(obj) == [Stringify(obj) EXCEPT !.contentType = Json]

\* res.status(s).json({ error: msg })
ErrorResp(s, msg) == [NoResp EXCEPT !.status = s, !.error = msg]

\* the catch block of a handler
InternalError == ErrorResp(500, MsgInternal)

\* res.status(s).json({ message, token, user: { id, email, username } })
TokenResp(s, userId, email, username, sim) ==
  [status |-> s, error |-> "", token |-> JwtSign(userId, email), userId |-> userId,
   email |-> email, username |-> username, simulated |-> sim, layers |-> 0,
   contentType |-> "", type |-> ""]

\* res.json({ message, email }) of the recover route
MessageResp(email, sim) == [NoResp EXCEPT !.status = 200, !.email = email, !.simulated = sim]

---------------------------------------------------------------------------
(* Requests *)

Idle == [op |-> "none", email |-> Undefined, password |-> Undefined, pc |-> "idle",
         user |-> NoUser, hashed |-> "", calls |-> <<>>, err |-> "", created |-> "",
         nresp |-> 0, resp |-> NoResp, regBefore |-> FALSE]

NewReq(op, email, password) ==
  [Idle EXCEPT !.op = op, !.email = email, !.password = password,
               !.regBefore = op = "login" /\ <<email, password>> \in registered]

\* the handler sends its response and ends
Respond(r, obj) == [r EXCEPT !.pc = "done", !.resp = ResJson(obj), !.nresp = r.nresp + 1]

\* the errors an awaited call rejects with
StoreDown == "P1001: Can't reach database server"
UniqueFailed == "P2002: Unique constraint failed on the fields: (email)"
IllegalArguments == "Illegal arguments: string, object"

\* an awaited call rejects: control goes to the catch block
Throw(r, error) == Respond([r EXCEPT !.err = error], InternalError)

\* the handler suspends on an awaited call; the prisma calls are recorded
Await(r, call) ==
  [r EXCEPT !.pc = call,
            !.calls = IF call \in {"findUnique", "create"} THEN Append(r.calls, call) ELSE r.calls]

\* the store has settled the prisma call of r: the promise is resolved or
\* rejected (r.err), and the handler has not resumed yet
Settled(r) == [r EXCEPT !.pc = "settled"]

\* the request has ended: its handler has answered ("done"), or its body was
\* rejected before any handler ran ("rejected")
Ended(r) == r.pc \in {"done", "rejected"}

InFlight == BagToSet(req)

\* the server accepts a new connection
Accept == BagCardinality(req) < MaxReqs

\* a request arrives and its handler runs to its first await, or to its response
Arrive(r) ==
  IF Ended(r)
    THEN req' = req /\ last' = r
    ELSE req' = req (+) SetToBag({r}) /\ last' = last

\* request r moves on: to its next await, or to its response
Resume(r, r2) ==
  IF r2.pc = "done"
    THEN req' = req (-) SetToBag({r}) /\ last' = r2
    ELSE req' = (req (-) SetToBag({r})) (+) SetToBag({r2}) /\ last' = last

---------------------------------------------------------------------------
(* Requests that fail before their handler *)

\* express.json() (server.js:16, routes/auth.js:19) cannot parse the body of a
\* request sent as application/json: it calls next(err) with a SyntaxError of
\* status 400, and no route handler runs
BodyParseFailed == "SyntaxError"

\* server.js:293-301, the final error handler: 500 whatever err.status is,
\* with the error's message and name.  The parser of line 16 fails before the
\* middleware of lines 19-31 runs, so res.send is the original send
FinalErrorHandler(error) ==
  ResJsonOnce([ErrorResp(500, MsgInternal) EXCEPT !.type = error])

\* routes/auth.js registers no error middleware: Express's default handler
\* answers with err.status and an HTML page
DefaultErrorHandler(error) ==
  [NoResp EXCEPT !.status = 400, !.contentType = Html]

\* a request to route op arrives with a body that is not JSON
BodyRejected(op) ==
  /\ Accept
  /\ LET r == [NewReq(op, Undefined, Undefined) EXCEPT !.err = BodyParseFailed] IN
     Arrive([r EXCEPT !.pc = "rejected", !.nresp = 1,
                      !.resp = IF app = "server" THEN FinalErrorHandler(r.err)
                                                 ELSE DefaultErrorHandler(r.err)])
  /\ UNCHANGED <<app, prisma, users, nextId, registered, seedVars>>

---------------------------------------------------------------------------
(* The store: table User behind the prisma client *)

\* the store runs the lookup of r against the table as it is now
StoreFindUnique(r) ==
  /\ r.pc = "findUnique"
  /\ Resume(r, Settled([r EXCEPT !.user = FindUnique(users, r.email)]))
  /\ UNCHANGED <<app, prisma, users, nextId, registered, seedVars>>

\* the store runs the insert of r: it adds the row, or the unique index rejects it
StoreCreate(r) ==
  /\ r.pc = "create"
  /\ LET user == [id |-> UserId(nextId + 1), email |-> r.email, username |-> Null,
                  password |-> r.hashed] IN
     IF UniqueViolation(users, r.email)
       THEN /\ Resume(r, Settled([r EXCEPT !.err = UniqueFailed]))
            /\ UNCHANGED <<users, nextId>>
       ELSE /\ users' = users \cup {user}
            /\ nextId' = nextId + 1
            /\ Resume(r, Settled([r EXCEPT !.created = user.id]))
  /\ UNCHANGED <<app, prisma, registered, seedVars>>

\* the store is unreachable: the prisma call of r rejects
StoreFails(r) ==
  /\ r.pc \in {"findUnique", "create"}
  /\ Resume(r, Settled([r EXCEPT !.err = StoreDown]))
  /\ UNCHANGED <<app, prisma, users, nextId, registered, seedVars>>

\* the handler of r resumes after its lookup / after its insert
AfterFindUnique(r) == r.pc = "settled" /\ r.calls[Len(r.calls)] = "findUnique"
AfterCreate(r) == r.pc = "settled" /\ r.calls[Len(r.calls)] = "create"

---------------------------------------------------------------------------
(* POST /auth/login *)

\* the test credentials of the simulation mode
SimCredentials(email, password) == email = "test@test.com" /\ password = "123456"

LoginStart(email, password) ==
  /\ Accept
  /\ LET r == NewReq("login", email, password) IN
     Arrive(IF Falsy(email) \/ Falsy(password)
              THEN Respond(r, ErrorResp(400, MsgRequired))
            ELSE IF ~prisma
              THEN IF SimCredentials(email, password)
                     THEN Respond(r, TokenResp(200, "test-user-id", email, "usuario_prueba", TRUE))
                     ELSE Respond(r, [ErrorResp(400, MsgSimInvalid) EXCEPT !.simulated = TRUE])
            ELSE Await(r, "findUnique"))
  /\ UNCHANGED <<app, prisma, users, nextId, registered, seedVars>>

LoginFound(r) ==
  /\ r.op = "login" /\ AfterFindUnique(r)
  /\ Resume(r, IF r.err # ""
                 THEN Throw(r, r.err)
               ELSE IF r.user = NoUser
                 THEN Respond(r, ErrorResp(400, MsgNotFound))
               ELSE Await(r, "compare"))
  /\ UNCHANGED <<app, prisma, users, nextId, registered, seedVars>>

LoginCompare(r) ==
  /\ r.op = "login" /\ r.pc = "compare"
  /\ Resume(r, IF BcryptCompareThrows(r.password, r.user.password)
                 THEN Throw(r, IllegalArguments)
               ELSE IF ~BcryptCompare(r.password, r.user.password)
                 THEN Respond(r, ErrorResp(400, MsgWrongPassword))
               ELSE Respond(r, TokenResp(200, r.user.id, r.user.email, r.user.username, FALSE)))
  /\ UNCHANGED <<app, prisma, users, nextId, registered, seedVars>>

---------------------------------------------------------------------------
(* POST /auth/register *)

\* mutant: the length check off by one
PasswordTooShortOffByOne(password) == Len(password) <= MinPasswordLength

PasswordTooShort(password) == Len(password) < MinPasswordLength

RegisterStart(email, password) ==
  /\ Accept
  /\ LET r == NewReq("register", email, password)
         r2 == IF Falsy(email) \/ Falsy(password)
                 THEN Respond(r, ErrorResp(400, MsgRequired))
               ELSE IF PasswordTooShort(password)
                 THEN Respond(r, ErrorResp(400, MsgShort))
               ELSE IF ~prisma
                 THEN Respond(r, TokenResp(201, "new-user-id", email, "nuevo_usuario", TRUE))
               ELSE Await(r, "findUnique") IN
     /\ Arrive(r2)
     /\ registered' = IF r2.resp.status = 201
                        THEN registered \cup {<<email, password>>}
                        ELSE registered
  /\ UNCHANGED <<app, prisma, users, nextId, seedVars>>

RegisterFound(r) ==
  /\ r.op = "register" /\ AfterFindUnique(r)
  /\ Resume(r, IF r.err # ""
                 THEN Throw(r, r.err)
               ELSE IF r.user # NoUser
                 THEN Respond(r, ErrorResp(400, MsgConflict))
               ELSE Await(r, "hash"))
  /\ UNCHANGED <<app, prisma, users, nextId, registered, seedVars>>

RegisterHash(r) ==
  /\ r.op = "register" /\ r.pc = "hash"
  /\ Resume(r, Await([r EXCEPT !.hashed = BcryptHash(r.password, BcryptCost)], "create"))
  /\ UNCHANGED <<app, prisma, users, nextId, registered, seedVars>>

\* the handler resumes with the created row: it signs the token and answers 201
RegisterCreated(r) ==
  /\ r.op = "register" /\ AfterCreate(r)
  /\ IF r.err # ""
       THEN Resume(r, Throw(r, r.err)) /\ registered' = registered
       ELSE /\ Resume(r, Respond(r, TokenResp(201, r.created, r.email, Null, FALSE)))
            /\ registered' = registered \cup {<<r.email, r.password>>}
  /\ UNCHANGED <<app, prisma, users, nextId, seedVars>>

---------------------------------------------------------------------------
(* POST /auth/recover *)

\* src/server.js: no lookup, always the confirmation
RecoverServer(email) ==
  IF Falsy(email) THEN ErrorResp(400, MsgEmailRequired) ELSE MessageResp(email, TRUE)

\* mutant: the lookup result is ignored
RecoverRoutesAlways(email, user) == MessageResp(email, FALSE)

\* src/src/routes/auth.js: the answer once findUnique has returned `user`
RecoverRoutes(email, user) ==
  IF user = NoUser THEN ErrorResp(404, MsgNotFound) ELSE MessageResp(email, FALSE)

RecoverStart(email) ==
  /\ Accept
  /\ LET r == NewReq("recover", email, Undefined) IN
     Arrive(IF app = "server" THEN Respond(r, RecoverServer(email))
            ELSE IF Falsy(email) THEN Respond(r, ErrorResp(400, MsgEmailRequired))
            ELSE Await(r, "findUnique"))
  /\ UNCHANGED <<app, prisma, users, nextId, registered, seedVars>>

RecoverFound(r) ==
  /\ r.op = "recover" /\ AfterFindUnique(r)
  /\ Resume(r, IF r.err # ""
                 THEN Throw(r, r.err)
                 ELSE Respond(r, RecoverRoutes(r.email, r.user)))
  /\ UNCHANGED <<app, prisma, users, nextId, registered, seedVars>>

---------------------------------------------------------------------------
(* The authentication service *)

SeedOff ==
  /\ destinos = <<>> /\ catalog = {} /\ prior = {}
  /\ seedPc = "off" /\ seedIdx = 0 /\ seedExits = <<>>

Init ==
  /\ app \in {"server", "routes"}
  /\ prisma \in BOOLEAN
  /\ app = "routes" => prisma
  /\ users \in InitialStores
  /\ ~prisma => users = {}
  /\ nextId = 0
  /\ req = EmptyBag
  /\ last = Idle
  /\ registered = {}
  /\ SeedOff

\* some step of the suspended request r, by the store or by its handler
Step(r) ==
  \/ StoreFindUnique(r) \/ StoreCreate(r) \/ StoreFails(r)
  \/ LoginFound(r) \/ LoginCompare(r)
  \/ RegisterFound(r) \/ RegisterHash(r) \/ RegisterCreated(r)
  \/ RecoverFound(r)

Next ==
  \/ \E email \in Emails, password \in Passwords : LoginStart(email, password)
  \/ \E email \in Emails, password \in Passwords : RegisterStart(email, password)
  \/ \E email \in Emails : RecoverStart(email)
  \/ \E op \in {"login", "register", "recover"} : BodyRejected(op)
  \/ \E r \in InFlight : StoreFindUnique(r)
  \/ \E r \in InFlight : StoreCreate(r)
  \/ \E r \in InFlight : StoreFails(r)
  \/ \E r \in InFlight : LoginFound(r)
  \/ \E r \in InFlight : LoginCompare(r)
  \/ \E r \in InFlight : RegisterFound(r)
  \/ \E r \in InFlight : RegisterHash(r)
  \/ \E r \in InFlight : RegisterCreated(r)
  \/ \E r \in InFlight : RecoverFound(r)

Spec == Init /\ [][Next]_vars

---------------------------------------------------------------------------
(* prisma/seed.js over table Destino *)

\* the entries a dataset is made of: (id, slug, nombre); slug may be missing
SeedEntries == [id : {"cusco", "lima"}, slug : {Undefined, "cusco"}, nombre : {"seed"}]

\* every dataset of at most MaxSeedLen entries
RECURSIVE SeqsUpTo(_)
SeqsUpTo(n) ==
  IF n = 0 THEN {<<>>}
  ELSE LET shorter == SeqsUpTo(n - 1) IN
       shorter \cup {Append(q, d) : q \in {x \in shorter : Len(x) = n - 1}, d \in SeedEntries}

\* rows the table may hold before the seed runs
OldRows == {[id |-> "cusco", slug |-> "cusco", nombre |-> "viejo"],
            [id |-> "arequipa", slug |-> "arequipa", nombre |-> "viejo"]}

\* the data object of prisma.destino.create for entry d
DestinoRow(d) ==
  [id |-> d.id, slug |-> IF Falsy(d.slug) THEN d.id ELSE d.slug, nombre |-> d.nombre]

\* PRIMARY KEY (id) and UNIQUE INDEX Destino_slug_key
DestinoConflict(rows, row) == \E x \in rows : x.id = row.id \/ x.slug = row.slug

\* mutant: only the rows whose id the dataset names are deleted
DeleteOnlySeedIds(rows) == {x \in rows : \A k \in 1..Len(destinos) : x.id # destinos[k].id}

\* prisma.destino.deleteMany()
DeleteMany(rows) == {}

AuthOff ==
  /\ app = "server" /\ prisma = FALSE /\ users = {} /\ nextId = 0
  /\ req = EmptyBag /\ last = Idle /\ registered = {}

InitSeed ==
  /\ destinos \in SeqsUpTo(MaxSeedLen)
  /\ catalog \in SUBSET OldRows
  /\ prior = catalog
  /\ seedPc = "ready"
  /\ seedIdx = 0
  /\ seedExits = <<>>
  /\ AuthOff

\* `node prisma/seed.js`: main() up to its first await, or to its early return
SeedMain ==
  /\ seedPc \in {"ready", "exited"}
  /\ Len(seedExits) < MaxSeedRuns
  /\ IF Len(destinos) = 0
       THEN seedPc' = "exited" /\ seedExits' = Append(seedExits, 0)
       ELSE seedPc' = "deleteMany" /\ seedExits' = seedExits
  /\ seedIdx' = 0
  /\ UNCHANGED <<app, prisma, users, nextId, req, last, registered, destinos, catalog, prior>>

\* main() rejects: .catch logs the error and calls process.exit(1); the table
\* stays as the rejected call found it
SeedExitOne ==
  /\ seedPc' = "exited" /\ seedExits' = Append(seedExits, 1)
  /\ UNCHANGED <<catalog, seedIdx>>

\* await prisma.destino.deleteMany(): the store empties the table, or it is
\* unreachable and the call is rejected
SeedDeleteMany ==
  /\ seedPc = "deleteMany"
  /\ \E reachable \in BOOLEAN :
       IF reachable
         THEN /\ catalog' = DeleteMany(catalog)
              /\ seedPc' = "create"
              /\ seedIdx' = 1
              /\ seedExits' = seedExits
         ELSE SeedExitOne
  /\ UNCHANGED <<app, prisma, users, nextId, req, last, registered, destinos, prior>>

\* one iteration of the for loop: the store inserts the row; a create rejected
\* by a key of the table, or by an unreachable store, ends the process with code 1
SeedCreate ==
  /\ seedPc = "create"
  /\ \E reachable \in BOOLEAN :
       LET row == DestinoRow(destinos[seedIdx]) IN
       IF ~reachable \/ DestinoConflict(catalog, row)
         THEN SeedExitOne
         ELSE /\ catalog' = catalog \cup {row}
              /\ IF seedIdx = Len(destinos)
                   THEN seedPc' = "exited" /\ seedExits' = Append(seedExits, 0) /\ seedIdx' = seedIdx
                   ELSE seedPc' = "create" /\ seedExits' = seedExits /\ seedIdx' = seedIdx + 1
  /\ UNCHANGED <<app, prisma, users, nextId, req, last, registered, destinos, prior>>

NextSeed == SeedMain \/ SeedDeleteMany \/ SeedCreate

SpecSeed == InitSeed /\ [][NextSeed]_vars

---------------------------------------------------------------------------
(* Properties *)

\* the request answered most recently was a call of route op
Answered(op) == last.op = op /\ last.pc = "done"

\* a register body that passes validation: both fields given, password of 6 or more
ValidRegistration(r) ==
  ~Falsy(r.email) /\ ~Falsy(r.password) /\ Len(r.password) >= 6

\* a response that carries a token
HasToken(resp) == resp.token # NoToken

\* C1 (as claimed): a login that arrives after a register of the same email and
\* password (of length >= 6) answered 201 answers 200 with a token for that
\* email, in every configuration, unless the store itself was unreachable.
C1_LoginAfterRegister ==
  (Answered("login") /\ last.regBefore /\ last.err # StoreDown)
    => (last.resp.status = 200 /\ last.resp.token.email = last.email)

\* C1 with the store client available: the same statement, restricted to the
\* configurations where prisma was initialised.
C1_LoginAfterRegisterWithStore == prisma => C1_LoginAfterRegister

\* C2 (as claimed): a valid register that does not create the record, while a
\* registered record for its email exists and the store is reachable, ends with
\* 400 'Ya existe un usuario con este email', and one record holds that email.
C2_DuplicateIsConflict ==
  (/\ Answered("register") /\ prisma /\ ValidRegistration(last)
   /\ last.created = "" /\ last.err # StoreDown
   /\ \E u \in users : u.email = last.email /\ u.password # Null)
    => /\ last.resp.status = 400 /\ last.resp.error = MsgConflict
       /\ Cardinality({u \in users : u.email = last.email}) = 1

\* C2 for requests that do not overlap: when the lookup of the later request
\* sees the record, the answer is the conflict.
C2_SequentialDuplicateIsConflict ==
  (Answered("register") /\ last.user # NoUser)
    => (last.resp.status = 400 /\ last.resp.error = MsgConflict)

\* C3 (as claimed): a login whose lookup found a record, with a non-empty
\* password that does not match the record's hash (a null hash included), ends
\* with 400 'Contraseña incorrecta' and never with 500.
C3_WrongPasswordIsAuthError ==
  (/\ Answered("login") /\ last.user # NoUser /\ ~Falsy(last.password)
   /\ last.user.password # BcryptHash(last.password, BcryptCost))
    => (last.resp.status = 400 /\ last.resp.error = MsgWrongPassword)

\* C3 for records that hold a hash: the wrong password is an authentication error.
C3_WrongPasswordWithHash ==
  (/\ Answered("login") /\ last.user # NoUser /\ last.user.password # Null
   /\ last.user.password # BcryptHash(last.password, BcryptCost))
    => (last.resp.status = 400 /\ last.resp.error = MsgWrongPassword)

\* C4 (as claimed): a register answers 201 if and only if it added a row, and
\* the row it added is the one row for the supplied email.
C4_RowIffCreated ==
  Answered("register")
    => /\ (last.resp.status = 201) <=> (last.created # "")
       /\ last.resp.status = 201 =>
            Cardinality({u \in users : u.email = last.email /\ u.id = last.created}) = 1

\* C4 with the store client available.
C4_RowIffCreatedWithStore == prisma => C4_RowIffCreated

\* C5: a register is answered with a validation error (400, 'requeridos' or
\* 'al menos 6 caracteres') exactly when email or password is missing or the
\* password is shorter than 6; a rejected request has issued no store call; a
\* request that passes, finds the email unused and meets no error answers 201.
C5_ValidationBoundary ==
  Answered("register")
    => /\ (last.resp.error \in {MsgRequired, MsgShort}) <=> ~ValidRegistration(last)
       /\ ~ValidRegistration(last) =>
            /\ last.resp.status = 400
            /\ last.calls = <<>> /\ last.created = ""
            /\ (Falsy(last.email) \/ Falsy(last.password)) <=> (last.resp.error = MsgRequired)
       /\ (ValidRegistration(last) /\ last.user = NoUser /\ last.err = "")
            => last.resp.status = 201

\* C5 witness: a password of length 5 was just rejected as too short, after a
\* password of length 6 had been accepted and stored.
C5_Witness ==
  /\ Answered("register") /\ last.password = "12345" /\ last.resp.error = MsgShort
  /\ \E u \in users : u.password = BcryptHash("123456", BcryptCost)

\* C10 (as claimed): every response that carries a token carries the id and
\* email of a row of the user store, in every configuration.
C10_TokenOnlyForStoredUser ==
  (last.pc = "done" /\ HasToken(last.resp))
    => \E u \in users : u.id = last.resp.token.userId /\ u.email = last.resp.token.email

\* C10 with the store client available; a login token is issued only after the
\* password matched the row's hash.
C10_TokenOnlyForStoredUserWithStore ==
  prisma =>
    /\ C10_TokenOnlyForStoredUser
    /\ (Answered("login") /\ HasToken(last.resp))
         => BcryptCompare(last.password, last.user.password)

\* the rows the seed file describes
SeedRows == {DestinoRow(destinos[k]) : k \in 1..Len(destinos)}

\* the last two seed runs both ended with exit code 0
TwoCleanRuns ==
  /\ seedPc = "exited" /\ Len(seedExits) >= 2
  /\ seedExits[Len(seedExits)] = 0 /\ seedExits[Len(seedExits) - 1] = 0

\* C6 (as claimed): for any prior contents and any seed dataset, after two seed
\* runs the catalog holds exactly as many rows as the seed file has entries,
\* all of them from the seed file.
C6_SeedTwiceReplaces ==
  (seedPc = "exited" /\ Len(seedExits) >= 2)
    => (Cardinality(catalog) = Len(destinos) /\ catalog \subseteq SeedRows)

\* C6 (amended): for a non-empty seed dataset, after two runs in succession
\* that both complete without error the catalog holds exactly the rows of the
\* seed file, one per entry; with an empty dataset a run returns before the
\* delete and the catalog keeps its prior rows.
C6_SeedTwiceReplacesNonEmpty ==
  /\ (TwoCleanRuns /\ destinos # <<>>)
       => (Cardinality(catalog) = Len(destinos) /\ catalog = SeedRows)
  /\ (seedPc \in {"ready", "exited"} /\ destinos = <<>>) => catalog = prior

\* C6 witness: two clean runs of a two-entry dataset over a table that held
\* other rows, one of them with an id of the dataset.
C6_Witness ==
  /\ TwoCleanRuns /\ Len(destinos) = 2
  /\ Cardinality(prior) = 2 /\ prior \cap catalog = {}

\* what holds of every request: a suspended request has sent nothing and can
\* always take a step, and holds a created row only while its insert has
\* settled without error; a request that has ended has sent exactly one
\* response, and no store call is issued twice
OneResponse ==
  /\ \A r \in InFlight :
       /\ r.nresp = 0 /\ r.pc \in {"findUnique", "compare", "hash", "create", "settled"}
       /\ ENABLED Step(r)
       /\ r.created # "" => (AfterCreate(r) /\ r.err = "")
  /\ Ended(last) =>
       /\ last.nresp = 1
       /\ last.resp.status \in {200, 201, 400, 404, 500}
       /\ Cardinality({last.calls[k] : k \in 1..Len(last.calls)}) = Len(last.calls)

\* what holds of every request a handler answered: a validation failure is a
\* 400; an error thrown at an await is a 500 'Error interno del servidor' of a
\* request that created no row, and a request that created a row is answered 201
HandlerOutcome ==
  /\ (last.op \in {"login", "register"} /\ (Falsy(last.email) \/ Falsy(last.password)))
       => (last.resp.status = 400 /\ last.resp.error = MsgRequired)
  /\ (last.op = "register" /\ ~ValidRegistration(last)) => last.resp.status = 400
  /\ (last.op = "recover" /\ Falsy(last.email))
       => (last.resp.status = 400 /\ last.resp.error = MsgEmailRequired)
  /\ (last.err # "") <=> (last.resp.status = 500)
  /\ last.resp.status = 500 =>
       (last.resp.error = MsgInternal /\ last.created = "" /\ ~HasToken(last.resp))
  /\ last.created # "" => last.resp.status = 201

\* C7 (as claimed), in every state: every request that has ended, whatever step
\* failed, has sent exactly one response and that response is JSON; a request
\* a handler answered has the handler's outcome (400 for a validation failure,
\* 500 for a thrown error, no row created by a failed request); a request
\* whose body could not be parsed is answered 400 or 500 and has touched no
\* store.
C7_State ==
  /\ OneResponse
  /\ Ended(last) => (last.resp.contentType = Json /\ last.resp.layers >= 1)
  /\ last.pc = "done" => HandlerOutcome
  /\ last.pc = "rejected" =>
       (last.resp.status \in {400, 500} /\ last.calls = <<>> /\ last.created = "")

\* C7, in every step: the user store changes only when the store runs the
\* insert of a register, by the one row of that request, which then waits for
\* its handler to resume.
C7_Step ==
  users' # users =>
    /\ Cardinality(users') = Cardinality(users) + 1
    /\ \E r \in BagToSet(req') :
         /\ r.op = "register" /\ r.created # "" /\ r.err = ""
         /\ users' = users \cup {u \in users' : u.id = r.created /\ u.email = r.email}

\* C7 (as claimed): every request to login, register or recover ends with
\* exactly one JSON response, whatever step fails; a validation failure is a
\* 400 and any other failure is caught and answered 500, with no retry and no
\* partially applied effect on the user store.
C7_ErrorsAreTerminal == []C7_State /\ [][C7_Step]_vars

\* C7 for the requests whose body was parsed, and for server.js: a handler
\* answers with exactly one response of JSON text, serialised twice in
\* server.js and once in routes/auth.js, with the handler's outcome; an
\* unparseable body is answered by server.js with one 500 of JSON text,
\* serialised once.
C7_HandlersAreTerminalState ==
  /\ OneResponse
  /\ last.pc = "done" =>
       /\ HandlerOutcome
       /\ last.resp.contentType = Json
       /\ last.resp.layers = IF app = "server" THEN 2 ELSE 1
  /\ (last.pc = "rejected" /\ app = "server") =>
       /\ last.resp.status = 500 /\ last.resp.error = MsgInternal
       /\ last.resp.contentType = Json /\ last.resp.layers = 1
       /\ last.calls = <<>> /\ last.created = ""

\* C7 for the requests whose body was parsed, and for server.js, with the
\* user store changing only by the insert of a register that is then answered.
C7_HandlersAreTerminal == []C7_HandlersAreTerminalState /\ [][C7_Step]_vars

\* a register whose insert was rejected has been answered 500, and the store
\* holds the one row of the request that won
C7_HandlerFailure ==
  /\ Answered("register") /\ last.err = UniqueFailed /\ last.resp.status = 500
  /\ last.calls = <<"findUnique", "create">>
  /\ Cardinality({u \in users : u.email = last.email}) = 1

\* routes/auth.js has answered a login whose body was not JSON with Express's
\* HTML error page
C7_HtmlAnswer ==
  /\ app = "routes" /\ last.op = "login" /\ last.pc = "rejected"
  /\ last.resp.status = 400 /\ last.resp.contentType = Html

\* C8: no two rows of the user store share an email.
C8_EmailUnique == \A u \in users, v \in users : u.email = v.email => u = v

\* C8 witness: two registers of one email both passed the lookup; the insert of
\* the second was rejected by the unique index.
C8_Witness ==
  /\ Answered("register") /\ last.err = UniqueFailed /\ last.user = NoUser
  /\ \E u \in users : u.email = last.email /\ u.password = last.hashed

\* C9, in every state: a recover without email is a 400 without store call in
\* both implementations; with an email, server.js answers 200 with the email
\* whatever the store holds, and routes/auth.js, once its lookup has returned,
\* answers the same (200, the email) exactly when the lookup found a row, and
\* 404 where server.js answers 200 when it did not.  A record counts as
\* existing when the store runs the lookup: one inserted between the lookup and
\* the answer is not seen.  The answers are compared by status and by the
\* object handed to res.json.
C9_State ==
  Answered("recover") =>
    /\ last.created = ""
    /\ Falsy(last.email) =>
         (last.resp.status = 400 /\ last.resp.error = MsgEmailRequired /\ last.calls = <<>>)
    /\ (~Falsy(last.email) /\ app = "server") =>
         (last.resp.status = 200 /\ last.resp.email = last.email /\ last.calls = <<>>)
    /\ (~Falsy(last.email) /\ app = "routes" /\ last.err = "") =>
         LET found == last.user # NoUser
             other == RecoverServer(last.email)
             agree == /\ last.resp.status = other.status
                      /\ last.resp.error = other.error
                      /\ last.resp.email = other.email IN
         /\ found => (last.user \in users /\ last.user.email = last.email)
         /\ agree <=> found
         /\ found => (last.resp.status = 200 /\ last.resp.email = last.email)
         /\ ~found => (last.resp.status = 404 /\ last.resp.error = MsgNotFound
                       /\ other.status = 200)

\* C9, in every step: no step of a recover request changes the user store.
C9_Step ==
  (\/ \E email \in Emails : RecoverStart(email)
   \/ \E r \in InFlight : r.op = "recover" /\ Step(r))
    => users' = users

\* C9: the two recover implementations reject a missing email alike, never
\* change the user store, and differ only when no row holds the email.
C9_RecoverVariants == []C9_State /\ [][C9_Step]_vars

\* C9 witness: routes/auth.js has answered 404 for an email no row holds, while
\* the store holds a row for another email.
C9_Witness ==
  /\ app = "routes" /\ Answered("recover") /\ last.resp.status = 404
  /\ users # {} /\ ~Falsy(last.email)
  /\ \A u \in users : u.email # last.email

============================================================================
